---- MODULE Spec2Model ----
(***************************************************************************)
(* Model of viewer.py: the uniform occupancy grid (RejillaOcupacion), the  *)
(* adaptive octree (NodoOctree) and the leaf selection of                  *)
(* visualizar_archivo.                                                     *)
(*                                                                         *)
(* Coordinates, sizes and bounds are exact rationals with denominator      *)
(* Escala, stored as integers (value * Escala), so that the midpoints of   *)
(* _subdividir are exact down to the deepest level the inputs reach.       *)
(***************************************************************************)
EXTENDS Integers, Sequences, FiniteSets, TLC

VARIABLES
    componente,      \* which part of the program the run exercises: "rejilla" | "octree" | "seleccion"
    puntos,          \* the point cloud handed to the constructors (set of <<x, y, z>>)
    tam_celda,       \* RejillaOcupacion.tam_celda
    g_estado,        \* "ninguno" | "inicio" | "construida" | "error" : outcome of RejillaOcupacion.__init__
    total_celdas,    \* RejillaOcupacion.total_celdas
    rejilla,         \* RejillaOcupacion.rejilla : cell key -> count
    g_estad,         \* result of estadisticas_celdas, or Ninguno
    limites,         \* bounds handed to the root NodoOctree
    tam_minimo,      \* NodoOctree.tam_minimo
    maximo_puntos,   \* NodoOctree.maximo_puntos
    nodos,           \* arena of the NodoOctree objects built so far
    pendientes,      \* stack of nodes whose _subdividir_o_hoja has not run yet
    o_estad,         \* result of recopilar_estadisticas, or Ninguno
    total_puntos,    \* visualizar_archivo: pts.shape[0]
    T,               \* visualizar_archivo: len(hojas_ocupadas)
    max_hojas,       \* visualizar_archivo: max_hojas, or Ninguno before it is derived
    seleccionadas    \* visualizar_archivo: indices into hojas_ocupadas, or Ninguno

vars == <<componente, puntos, tam_celda, g_estado, total_celdas, rejilla, g_estad,
          limites, tam_minimo, maximo_puntos, nodos, pendientes, o_estad,
          total_puntos, T, max_hojas, seleccionadas>>

gridVars == <<tam_celda, g_estado, total_celdas, rejilla, g_estad>>
octVars == <<limites, tam_minimo, maximo_puntos, nodos, pendientes, o_estad>>
selVars == <<total_puntos, T, max_hojas, seleccionadas>>

\* An absent value; a present result r is held as <<r>>.
Ninguno == <<>>

(***************************************************************************)
(* Bounds of the model.                                                    *)
(***************************************************************************)
\* Largest number of points in a cloud.
MaxPuntos == 3
\* Largest maximo_puntos tried (0 .. MaxMaximoPuntos).
MaxMaximoPuntos == 2
\* Denominator of every coordinate: 2^3, three exact halvings.
Escala == 2 * 2 * 2
\* Coordinates a point may take on each axis (in units, before scaling).
CoordsX == {0, 1, 2, 3}
CoordsY == {0, 1}
CoordsZ == {0, 1}
\* tam_minimo values tried, scaled: 0, 0.5, 1.0 and 2.0.
TamMinimos == {0, 4, 8, 16}
\* tam_celda values tried, scaled: -1.0, 0, 0.5, 1.0 and 3.0.
TamCeldas == {-8, 0, 4, 8, 24}
\* Largest number of occupied leaves handed to the leaf selection.
MaxT == 30
\* Cloud sizes tried in the leaf selection.
TotalesPuntos == {0, 5, 9, 10, 25, 47, 60, 140, 220}

Posiciones == {<<x * Escala, y * Escala, z * Escala>> : x \in CoordsX, y \in CoordsY, z \in CoordsZ}

Nubes == {S \in SUBSET Posiciones : Cardinality(S) <= MaxPuntos}

Ejes == {1, 2, 3}

(***************************************************************************)
(* Helpers.                                                                *)
(***************************************************************************)
Min(S) == CHOOSE m \in S : \A n \in S : m <= n
Max(S) == CHOOSE m \in S : \A n \in S : m >= n

\* pts[:,k].min() and pts[:,k].max() per axis: the bounding box of a cloud.
Limites(pts) ==
    << <<Min({p[1] : p \in pts}), Min({p[2] : p \in pts}), Min({p[3] : p \in pts})>>,
       <<Max({p[1] : p \in pts}), Max({p[2] : p \in pts}), Max({p[3] : p \in pts})>> >>

(***************************************************************************)
(* NodoOctree.                                                             *)
(***************************************************************************)
\* np.max(np.subtract(limites[1], limites[0]))
MaxTam(lim) == Max({lim[2][k] - lim[1][k] : k \in Ejes})

\* Variant: the point count compared with >=.
DebeSubdividirMutPuntosGe(n) ==
    /\ Cardinality(n.puntos) >= maximo_puntos
    /\ MaxTam(n.limites) > tam_minimo

\* Variant: the extent compared with >=.
DebeSubdividirMutGe(n) ==
    /\ Cardinality(n.puntos) > maximo_puntos
    /\ MaxTam(n.limites) >= tam_minimo

\* The condition of _subdividir_o_hoja.
DebeSubdividir(n) ==
    /\ Cardinality(n.puntos) > maximo_puntos
    /\ MaxTam(n.limites) > tam_minimo

\* (x0 + x1) / 2 per axis.
Medio(lim) == [k \in Ejes |-> (lim[1][k] + lim[2][k]) \div 2]

\* The eight sub_limites in the order of the three nested loops (dx outer, dz inner).
\* Octant o in 0..7: bit 4 selects the upper half in x, bit 2 in y, bit 1 in z.
Mitad(lim, k, alto) ==
    IF alto = 0 THEN <<lim[1][k], Medio(lim)[k]>> ELSE <<Medio(lim)[k], lim[2][k]>>

SubLimites(lim, o) ==
    LET dx == Mitad(lim, 1, (o \div 4) % 2)
        dy == Mitad(lim, 2, (o \div 2) % 2)
        dz == Mitad(lim, 3, o % 2)
    IN  << <<dx[1], dy[1], dz[1]>>, <<dx[2], dy[2], dz[2]>> >>

\* Variant: the innermost loop (dz) left out.
OctantesMutCuatro == <<0, 2, 4, 6>>

\* The octants in construction order.
Octantes == <<0, 1, 2, 3, 4, 5, 6, 7>>

\* Variant: the upper bound included.
MascaraMutInclusiva(p, sub) ==
    \A k \in Ejes : p[k] >= sub[1][k] /\ p[k] <= sub[2][k]

\* Variant: the lower bound not tested.
MascaraMutSinInferior(p, sub) ==
    \A k \in Ejes : p[k] < sub[2][k]

\* mascara: coord >= low and coord < high on the three axes.
Mascara(p, sub) ==
    \A k \in Ejes : p[k] >= sub[1][k] /\ p[k] < sub[2][k]

\* NodoOctree.__init__ up to the call of _subdividir_o_hoja.
NuevoNodo(pts, lim, prof, padre) ==
    [puntos |-> pts, limites |-> lim, hijos |-> <<>>, prof |-> prof, padre |-> padre]

\* The child objects _subdividir constructs, in order.
Hijos(n, id) ==
    [i \in 1..Len(Octantes) |->
        LET sub == SubLimites(n.limites, Octantes[i])
        IN  NuevoNodo({p \in n.puntos : Mascara(p, sub)}, sub, n.prof + 1, id)]

\* The inputs of an octree run: a deduplicated, non-empty cloud and its
\* bounding box, as comparar_archivo passes them.  tam_minimo <= 0 together
\* with maximo_puntos = 0 is left out: every occupied node then subdivides
\* without end, until Python's recursion limit raises RecursionError.
InitOctree ==
    /\ componente = "octree"
    /\ puntos \in Nubes \ {{}}
    /\ limites = Limites(puntos)
    /\ tam_minimo \in TamMinimos
    /\ maximo_puntos \in 0..MaxMaximoPuntos
    /\ ~(tam_minimo <= 0 /\ maximo_puntos = 0)
    /\ nodos = <<>>
    /\ pendientes = <<>>
    /\ o_estad = Ninguno
    /\ tam_celda = Ninguno /\ g_estado = "ninguno" /\ total_celdas = Ninguno
    /\ rejilla = Ninguno /\ g_estad = Ninguno
    /\ total_puntos = Ninguno /\ T = Ninguno /\ max_hojas = Ninguno
    /\ seleccionadas = Ninguno

\* NodoOctree(pts, limites, tam_minimo, maximo_puntos): the root's fields are set.
ConstruirRaiz ==
    /\ componente = "octree"
    /\ nodos = <<>>
    /\ nodos' = <<NuevoNodo(puntos, limites, 0, 0)>>
    /\ pendientes' = <<1>>
    /\ UNCHANGED <<componente, puntos, limites, tam_minimo, maximo_puntos, o_estad, gridVars, selVars>>

\* _subdividir_o_hoja on the innermost pending node, condition true: _subdividir.
Subdividir ==
    /\ pendientes # <<>>
    /\ LET id == Head(pendientes)
           n == nodos[id]
           base == Len(nodos)
           hs == Hijos(n, id)
       IN  /\ DebeSubdividir(n)
           /\ nodos' = [nodos EXCEPT ![id].hijos = [i \in 1..Len(hs) |-> base + i]] \o hs
           /\ pendientes' = [i \in 1..Len(hs) |-> base + i] \o Tail(pendientes)
    /\ UNCHANGED <<componente, puntos, limites, tam_minimo, maximo_puntos, o_estad, gridVars, selVars>>

\* _subdividir_o_hoja on the innermost pending node, condition false: a leaf.
Hoja ==
    /\ pendientes # <<>>
    /\ ~DebeSubdividir(nodos[Head(pendientes)])
    /\ pendientes' = Tail(pendientes)
    /\ UNCHANGED <<componente, puntos, limites, tam_minimo, maximo_puntos, nodos, o_estad, gridVars, selVars>>

Construido == nodos # <<>> /\ pendientes = <<>>

\* recursivo(nodo) of recopilar_estadisticas.
RECURSIVE Recursivo(_, _)
Recursivo(arena, id) ==
    LET n == arena[id]
        cnt == Cardinality(n.puntos)
        RECURSIVE Suma(_, _)
        Suma(i, acc) ==
            IF i > Len(n.hijos) THEN acc
            ELSE LET sub == Recursivo(arena, n.hijos[i])
                 IN  Suma(i + 1, [k \in DOMAIN acc |-> acc[k] + sub[k]])
    IN  IF n.hijos = <<>>
        THEN [nodos |-> 1, hojas |-> 1, internos |-> 0,
              hojas_ocupadas |-> IF cnt > 0 THEN 1 ELSE 0,
              hojas_vacias |-> IF cnt > 0 THEN 0 ELSE 1,
              suma_puntos |-> IF cnt > 0 THEN cnt ELSE 0]
        ELSE Suma(1, [nodos |-> 1, hojas |-> 0, internos |-> 1, hojas_ocupadas |-> 0,
                      hojas_vacias |-> 0, suma_puntos |-> 0])

\* Variant: the average divides without the guard on hojas_ocupadas.
EstadisticasMutSinGuarda(arena) ==
    LET raw == Recursivo(arena, 1)
    IN  [total_nodos |-> raw.nodos, hojas |-> raw.hojas, internos |-> raw.internos,
         hojas_ocupadas |-> raw.hojas_ocupadas, hojas_vacias |-> raw.hojas_vacias,
         promedio_puntos |-> <<raw.suma_puntos, raw.hojas_ocupadas>>]

\* The dictionary recopilar_estadisticas returns; promedio_puntos is the
\* fraction <<numerator, denominator>>, and <<0, 1>> for the literal 0.
Estadisticas(arena) ==
    LET raw == Recursivo(arena, 1)
    IN  [total_nodos |-> raw.nodos, hojas |-> raw.hojas, internos |-> raw.internos,
         hojas_ocupadas |-> raw.hojas_ocupadas, hojas_vacias |-> raw.hojas_vacias,
         promedio_puntos |-> IF raw.hojas_ocupadas # 0
                             THEN <<raw.suma_puntos, raw.hojas_ocupadas>>
                             ELSE <<0, 1>>]

RecopilarEstadisticas ==
    /\ Construido
    /\ o_estad = Ninguno
    /\ o_estad' = <<Estadisticas(nodos)>>
    /\ UNCHANGED <<componente, puntos, limites, tam_minimo, maximo_puntos, nodos, pendientes, gridVars, selVars>>

\* obtener_nodos_hoja: the leaves in depth-first order, as arena indices.
RECURSIVE ObtenerNodosHoja(_, _)
ObtenerNodosHoja(arena, id) ==
    LET n == arena[id]
        RECURSIVE Extender(_, _)
        Extender(i, hojas) ==
            IF i > Len(n.hijos) THEN hojas
            ELSE Extender(i + 1, hojas \o ObtenerNodosHoja(arena, n.hijos[i]))
    IN  IF n.hijos = <<>> THEN <<id>> ELSE Extender(1, <<>>)

(***************************************************************************)
(* RejillaOcupacion.                                                       *)
(***************************************************************************)
\* floor(a / b) for b # 0, as np.floor of a quotient and as the // operator give it.
FloorDiv(a, b) == IF b > 0 THEN a \div b ELSE (-a) \div (-b)

\* The key (ix, iy, iz) _poblar computes for a point.
Clave(p, minimo, tam) == [k \in Ejes |-> FloorDiv(p[k] - minimo[k], tam)]

\* Variant: points outside the half-open bounding box are skipped.
PoblarMutExcluyeMaximo(pts, lim, tam) ==
    LET dentro == {p \in pts : Mascara(p, lim)}
        claves == {Clave(p, lim[1], tam) : p \in dentro}
    IN  [c \in claves |-> Cardinality({p \in dentro : Clave(p, lim[1], tam) = c})]

\* _poblar: the dictionary of counts per key; keys are created on first use.
Poblar(pts, lim, tam) ==
    LET claves == {Clave(p, lim[1], tam) : p \in pts}
    IN  [c \in claves |-> Cardinality({p \in pts : Clave(p, lim[1], tam) = c})]

\* nx * ny * nz with n = int(np.floor((maximo - minimo) / tam_celda)) + 1 per axis.
TotalCeldas(lim, tam) ==
    LET n(k) == FloorDiv(lim[2][k] - lim[1][k], tam) + 1
    IN  n(1) * n(2) * n(3)

\* sum(rejilla.values())
RECURSIVE SumaConteos(_)
SumaConteos(f) ==
    IF DOMAIN f = {} THEN 0
    ELSE LET c == CHOOSE c \in DOMAIN f : TRUE
         IN  f[c] + SumaConteos([d \in DOMAIN f \ {c} |-> f[d]])

\* The dictionary estadisticas_celdas returns; promedio_puntos is the fraction
\* <<sum, count>> for np.mean, and <<0, 1>> for the literal 0.
EstadisticasCeldas(total, f) ==
    LET ocupadas == Cardinality(DOMAIN f)
    IN  [total_celdas |-> total, ocupadas |-> ocupadas, vacias |-> total - ocupadas,
         promedio_puntos |-> IF ocupadas # 0 THEN <<SumaConteos(f), ocupadas>> ELSE <<0, 1>>]

\* The inputs of a grid run; the empty cloud and tam_celda <= 0 are among them.
InitRejilla ==
    /\ componente = "rejilla"
    /\ puntos \in Nubes
    /\ tam_celda \in TamCeldas
    /\ g_estado = "inicio"
    /\ total_celdas = Ninguno /\ rejilla = Ninguno /\ g_estad = Ninguno
    /\ limites = Ninguno /\ tam_minimo = Ninguno /\ maximo_puntos = Ninguno
    /\ nodos = <<>> /\ pendientes = <<>> /\ o_estad = Ninguno
    /\ total_puntos = Ninguno /\ T = Ninguno /\ max_hojas = Ninguno
    /\ seleccionadas = Ninguno

\* RejillaOcupacion.__init__ on a non-empty cloud with tam_celda # 0, _poblar included.
ConstruirRejilla ==
    /\ componente = "rejilla"
    /\ g_estado = "inicio"
    /\ puntos # {}
    /\ tam_celda # 0
    /\ g_estado' = "construida"
    /\ total_celdas' = <<TotalCeldas(Limites(puntos), tam_celda)>>
    /\ rejilla' = <<Poblar(puntos, Limites(puntos), tam_celda)>>
    /\ UNCHANGED <<componente, puntos, tam_celda, g_estad, octVars, selVars>>

\* RejillaOcupacion.__init__ raising: np.min of an empty array (ValueError), or
\* int() of the inf or nan that a division by a zero tam_celda leaves
\* (OverflowError, ValueError). No object is constructed.
ConstruirRejillaError ==
    /\ componente = "rejilla"
    /\ g_estado = "inicio"
    /\ puntos = {} \/ tam_celda = 0
    /\ g_estado' = "error"
    /\ UNCHANGED <<componente, puntos, tam_celda, total_celdas, rejilla, g_estad, octVars, selVars>>

CalcularEstadisticasCeldas ==
    /\ g_estado = "construida"
    /\ g_estad = Ninguno
    /\ g_estad' = <<EstadisticasCeldas(total_celdas[1], rejilla[1])>>
    /\ UNCHANGED <<componente, puntos, tam_celda, g_estado, total_celdas, rejilla, octVars, selVars>>

(***************************************************************************)
(* The leaf selection of visualizar_archivo.                               *)
(*                                                                         *)
(* paso and i * paso are IEEE-754 doubles.  A positive double below 2^17   *)
(* is held exactly as <<p0, p1, p2, p3>>, the value                        *)
(* p0 + p1 / B + p2 / B^2 + p3 / B^3 with B = 2^18 and 0 <= p1, p2, p3 < B:*)
(* 54 fraction bits, of which a double with an L-bit integer part keeps    *)
(* the upper 53 - L.                                                       *)
(***************************************************************************)
RECURSIVE Pot2(_)
Pot2(k) == IF k = 0 THEN 1 ELSE 2 * Pot2(k - 1)

Base == Pot2(18)

\* Number of bits of q >= 1.
LongitudBits(q) == CHOOSE k \in 1..17 : Pot2(k - 1) <= q /\ q < Pot2(k)

\* Rounding of an exact value x >= 1 (plus a non-zero remainder below the
\* last limb when resto is TRUE) to the nearest double, ties to even.
Redondear(x, resto) ==
    LET D == Pot2(LongitudBits(x[1]) + 1)
        conservado == x[4] \div D
        descartado == x[4] % D
        medio == D \div 2
        bitRedondeo == descartado \div medio
        pegajoso == (descartado % medio # 0) \/ resto
        sube == bitRedondeo = 1 /\ (pegajoso \/ conservado % 2 = 1)
        k3 == conservado + (IF sube THEN 1 ELSE 0)
        c3 == IF k3 = Base \div D THEN 1 ELSE 0
        n3 == IF c3 = 1 THEN 0 ELSE k3 * D
        v2 == x[3] + c3
        v1 == x[2] + v2 \div Base
    IN  <<x[1] + v1 \div Base, v1 % Base, v2 % Base, n3>>

\* paso = T / max_hojas: the correctly rounded quotient of two integers, t > m > 0.
Dividir(t, m) ==
    LET r0 == t % m
        r1 == (r0 * Base) % m
        r2 == (r1 * Base) % m
        r3 == (r2 * Base) % m
    IN  Redondear(<<t \div m, (r0 * Base) \div m, (r1 * Base) \div m, (r2 * Base) \div m>>,
                  r3 # 0)

\* i * paso: the correctly rounded product of the integer i and the double x.
Multiplicar(i, x) ==
    LET v3 == x[4] * i
        v2 == x[3] * i + v3 \div Base
        v1 == x[2] * i + v2 \div Base
        v0 == x[1] * i + v1 \div Base
        p == <<v0, v1 % Base, v2 % Base, v3 % Base>>
    IN  IF v0 = 0 THEN p ELSE Redondear(p, FALSE)

\* int(i * paso)
Indice(i, t, m) == Multiplicar(i, Dividir(t, m))[1]

\* max_hojas = min(int(total_puntos / 10), 10000)
MaxHojas(n) == IF n \div 10 < 10000 THEN n \div 10 ELSE 10000

\* Variant: a cap of 0 selects nothing.
SeleccionarMutVacia(t, m) ==
    IF m > 0 /\ t > m THEN [j \in 1..m |-> Indice(j - 1, t, m)]
    ELSE IF m = 0 THEN <<>>
    ELSE [j \in 1..t |-> j - 1]

\* seleccionadas, as the sequence of the 0-based indices into hojas_ocupadas.
Seleccionar(t, m) ==
    IF m > 0 /\ t > m THEN [j \in 1..m |-> Indice(j - 1, t, m)]
    ELSE [j \in 1..t |-> j - 1]

\* The inputs of a leaf selection: the cloud size and the number of occupied
\* leaves of its octree, which never exceeds the number of points.
InitSeleccion ==
    /\ componente = "seleccion"
    /\ total_puntos \in TotalesPuntos
    /\ T \in 0..MaxT
    /\ T <= total_puntos
    /\ max_hojas = Ninguno
    /\ seleccionadas = Ninguno
    /\ puntos = Ninguno
    /\ tam_celda = Ninguno /\ g_estado = "ninguno" /\ total_celdas = Ninguno
    /\ rejilla = Ninguno /\ g_estad = Ninguno
    /\ limites = Ninguno /\ tam_minimo = Ninguno /\ maximo_puntos = Ninguno
    /\ nodos = <<>> /\ pendientes = <<>> /\ o_estad = Ninguno

\* visualizar_archivo, line 188.
DerivarMaxHojas ==
    /\ componente = "seleccion"
    /\ max_hojas = Ninguno
    /\ max_hojas' = <<MaxHojas(total_puntos)>>
    /\ UNCHANGED <<componente, puntos, gridVars, octVars, total_puntos, T, seleccionadas>>

\* visualizar_archivo, lines 198-208.
SeleccionarHojas ==
    /\ componente = "seleccion"
    /\ max_hojas # Ninguno
    /\ seleccionadas = Ninguno
    /\ seleccionadas' = <<Seleccionar(T, max_hojas[1])>>
    /\ UNCHANGED <<componente, puntos, gridVars, octVars, total_puntos, T, max_hojas>>

(***************************************************************************)
(* The specifications.                                                     *)
(***************************************************************************)
Init == InitRejilla \/ InitOctree \/ InitSeleccion

Next ==
    \/ ConstruirRejilla
    \/ ConstruirRejillaError
    \/ CalcularEstadisticasCeldas
    \/ ConstruirRaiz
    \/ Subdividir
    \/ Hoja
    \/ RecopilarEstadisticas
    \/ DerivarMaxHojas
    \/ SeleccionarHojas

Spec == Init /\ [][Next]_vars

\* Every midpoint the model computed is exact.
MediosExactos ==
    \A i \in 1..Len(nodos) :
        nodos[i].hijos # <<>> =>
            \A k \in Ejes : (nodos[i].limites[1][k] + nodos[i].limites[2][k]) % 2 = 0


(***************************************************************************)
(* Properties.                                                             *)
(***************************************************************************)
EnOctree == componente = "octree"
ParametrosValidos == EnOctree /\ tam_minimo > 0 /\ maximo_puntos >= 1
Interno(i) == nodos[i].hijos # <<>>
Procesado(i) == \A j \in 1..Len(pendientes) : pendientes[j] # i
PuntosDeHijos(i) == UNION {nodos[nodos[i].hijos[j]].puntos : j \in 1..Len(nodos[i].hijos)}
\* Points with a coordinate at the maximum of the bounds lim on some axis.
EnMaximo(pts, lim) == {p \in pts : \E k \in Ejes : p[k] = lim[2][k]}
EjePlano(lim) == \E k \in Ejes : lim[1][k] = lim[2][k]

\* C1: for a non-empty cloud and tam_celda > 0 the counts of the constructed
\* grid add up to the number of points, points at the bounding-box maximum
\* included, and the statistics satisfy ocupadas + vacias = total_celdas.
C1_RejillaCuentaTodos ==
    (g_estado = "construida" /\ puntos # {} /\ tam_celda > 0) =>
        /\ SumaConteos(rejilla[1]) = Cardinality(puntos)
        /\ \A p \in puntos : Clave(p, Limites(puntos)[1], tam_celda) \in DOMAIN rejilla[1]
        /\ g_estad # Ninguno =>
              g_estad[1].ocupadas + g_estad[1].vacias = g_estad[1].total_celdas

C1_Testigo ==
    /\ g_estado = "construida" /\ tam_celda > 0 /\ g_estad # Ninguno
    /\ Cardinality(puntos) >= 3
    /\ g_estad[1].ocupadas = 2

\* C2: every node of the octree has no children or exactly eight, and the
\* statistics satisfy total_nodos = hojas + internos and
\* hojas_ocupadas + hojas_vacias = hojas.
C2_OchoHijosYConteos ==
    /\ \A i \in 1..Len(nodos) : Len(nodos[i].hijos) \in {0, 8}
    /\ o_estad # Ninguno =>
          /\ o_estad[1].total_nodos = o_estad[1].hojas + o_estad[1].internos
          /\ o_estad[1].hojas_ocupadas + o_estad[1].hojas_vacias = o_estad[1].hojas
          /\ o_estad[1].total_nodos = Len(nodos)
          /\ o_estad[1].internos = Cardinality({i \in 1..Len(nodos) : Interno(i)})

C2_Testigo ==
    /\ o_estad # Ninguno
    /\ o_estad[1].internos >= 2
    /\ o_estad[1].hojas_ocupadas >= 2
    /\ o_estad[1].hojas_vacias >= 1

\* C3: after a node subdivides no point is owned by two of its children; a
\* node other than the root loses no point, and the points of the root that
\* no child owns all lie at the maximum of the root bounds on some axis.
C3_ParticionDePuntos ==
    \A i \in 1..Len(nodos) :
        Interno(i) =>
            /\ \A a, b \in 1..Len(nodos[i].hijos) :
                  a # b => nodos[nodos[i].hijos[a]].puntos
                              \cap nodos[nodos[i].hijos[b]].puntos = {}
            /\ PuntosDeHijos(i) \subseteq nodos[i].puntos
            /\ i # 1 => PuntosDeHijos(i) = nodos[i].puntos
            /\ i = 1 => (nodos[i].puntos \ PuntosDeHijos(i))
                            \subseteq EnMaximo(nodos[i].puntos, nodos[i].limites)

C3_Testigo ==
    /\ Construido
    /\ Interno(1)
    /\ nodos[1].puntos \ PuntosDeHijos(1) # {}
    /\ \E i \in 2..Len(nodos) :
          /\ Interno(i)
          /\ \E a, b \in 1..8 : a # b /\ nodos[nodos[i].hijos[a]].puntos # {}
                                     /\ nodos[nodos[i].hijos[b]].puntos # {}

\* ceil(log2(e / m)) for e > 0 and m > 0: the least k with e <= m * 2^k.
ExponentesLog == -6..6
Pot2Cubre(e, m, k) == IF k >= 0 THEN e <= m * Pot2(k) ELSE e * Pot2(-k) <= m
CeilLog2(e, m) ==
    CHOOSE k \in ExponentesLog :
        /\ Pot2Cubre(e, m, k)
        /\ k - 1 \in ExponentesLog => ~Pot2Cubre(e, m, k - 1)

CotaProfundidad ==
    IF MaxTam(limites) = 0 THEN 0
    ELSE IF CeilLog2(MaxTam(limites), tam_minimo) > 0
         THEN CeilLog2(MaxTam(limites), tam_minimo) ELSE 0

ProfundidadAcotada ==
    ParametrosValidos =>
        LET cota == CotaProfundidad
        IN  \A i \in 1..Len(nodos) : nodos[i].prof <= cota

\* Largest number of nodes of a subtree with r levels below its root.
RECURSIVE Peso(_)
Peso(r) == IF r < 0 THEN 0 ELSE 1 + 8 * Peso(r - 1)

\* The work left to a construction with depth bound cota, arena ns and stack
\* ps: the nodes that may still be created or await their _subdividir_o_hoja.
RECURSIVE PesoPendientes(_, _, _)
PesoPendientes(cota, ns, ps) ==
    IF ps = <<>> THEN 0
    ELSE Peso(cota - ns[Head(ps)].prof) + PesoPendientes(cota, ns, Tail(ps))

Medida(cota, ns, ps) == IF ns = <<>> THEN Peso(cota) + 1 ELSE PesoPendientes(cota, ns, ps)

C5_SubdivideSiYSoloSi ==
    \A i \in 1..Len(nodos) :
        Procesado(i) =>
            LET denso == Cardinality(nodos[i].puntos) > maximo_puntos
                grande == MaxTam(nodos[i].limites) > tam_minimo
            IN  /\ (Len(nodos[i].hijos) = 8) <=> (denso /\ grande)
                /\ ~(denso /\ grande) => nodos[i].hijos = <<>>

C5_Testigo ==
    /\ Construido
    /\ maximo_puntos >= 1
    /\ \E i \in 1..Len(nodos) : Len(nodos[i].hijos) = 8
    /\ \E i \in 1..Len(nodos) :
          /\ nodos[i].hijos = <<>>
          /\ Cardinality(nodos[i].puntos) > maximo_puntos
          /\ MaxTam(nodos[i].limites) <= tam_minimo
    /\ \E i \in 1..Len(nodos) : nodos[i].hijos = <<>> /\ nodos[i].puntos = {}

\* C6 as stated: with T > max_hojas > 0 the selection has max_hojas entries,
\* entry i is index floor(i * T / max_hojas), the indices increase strictly,
\* the first is 0 and all are below T.
C6_IndicesDePaso ==
    (seleccionadas # Ninguno /\ max_hojas[1] > 0 /\ T > max_hojas[1]) =>
        LET sel == seleccionadas[1]
            M == max_hojas[1]
        IN  /\ Len(sel) = M
            /\ \A j \in 1..M : sel[j] = ((j - 1) * T) \div M
            /\ \A j \in 1..(M - 1) : sel[j] < sel[j + 1]
            /\ sel[1] = 0
            /\ \A j \in 1..M : sel[j] < T

C8_RechazaParametros ==
    /\ (componente = "rejilla" /\ (tam_celda <= 0 \/ puntos = {})) =>
          /\ g_estado \in {"inicio", "error"}
          /\ rejilla = Ninguno /\ g_estad = Ninguno
    /\ (EnOctree /\ (tam_minimo <= 0 \/ maximo_puntos < 1)) =>
          /\ ~Construido
          /\ o_estad = Ninguno

\* C9: when the root subdivides, a point at the maximum of the root bounds on
\* some axis is in no child and in no leaf, and the point counts of the
\* leaves add up to the root's count less the number of such points.
C9_PuntosEnMaximoCaen ==
    (EnOctree /\ Construido /\ Interno(1)) =>
        LET caidos == EnMaximo(nodos[1].puntos, nodos[1].limites)
            hojas == ObtenerNodosHoja(nodos, 1)
        IN  /\ caidos \cap PuntosDeHijos(1) = {}
            /\ \A j \in 1..Len(hojas) : caidos \cap nodos[hojas[j]].puntos = {}
            /\ Recursivo(nodos, 1).suma_puntos
                  = Cardinality(nodos[1].puntos) - Cardinality(caidos)

C9_Testigo ==
    /\ EnOctree /\ Construido /\ Interno(1)
    /\ Cardinality(EnMaximo(nodos[1].puntos, nodos[1].limites)) = 2
    /\ Recursivo(nodos, 1).suma_puntos = 1

\* C10: when the root bounds have zero extent on some axis and the root
\* subdivides, its eight children are empty leaves and the statistics are
\* total_nodos = 9, hojas_ocupadas = 0, hojas_vacias = 8, promedio_puntos = 0.
C10_PlanoTodoVacio ==
    (EnOctree /\ Construido /\ Interno(1) /\ EjePlano(limites)) =>
        /\ \A j \in 1..8 : nodos[nodos[1].hijos[j]].puntos = {}
                            /\ nodos[nodos[1].hijos[j]].hijos = <<>>
        /\ o_estad # Ninguno =>
              /\ o_estad[1].total_nodos = 9
              /\ o_estad[1].hojas_ocupadas = 0
              /\ o_estad[1].hojas_vacias = 8
              /\ o_estad[1].promedio_puntos = <<0, 1>>

C10_Testigo ==
    /\ EnOctree /\ Construido /\ Interno(1) /\ EjePlano(limites)
    /\ maximo_puntos >= 1
    /\ o_estad # Ninguno
    /\ o_estad[1].total_nodos = 9
====
